---- MODULE Spec2Model ----
(***************************************************************************)
(* Model of the update-serialization queue of                              *)
(* src/client/datascience/interactive-common/interactiveBase.ts            *)
(* (chainWithPendingUpdates, pendingCellUpdates,                           *)
(* clearPendingChainedUpdatesForTests), run on a JavaScript event loop:    *)
(* promise reactions are jobs of a FIFO microtask queue, and the events    *)
(* that do not come from this code (workspace.applyEdit or the promise of  *)
(* an update callback settling, a document closing) arrive when that       *)
(* queue is empty.                                                         *)
(*                                                                         *)
(* The second part models the interactive window of the same file (class   *)
(* InteractiveBase): restartKernel, interruptKernel, restartKernelInternal,*)
(* the cells and status items of sendCellsToWebView / setStatus /          *)
(* finishOutstandingCells, and the shared attempts of                      *)
(* ensureConnectionAndNotebook and ensureNotebook.  Every await of these   *)
(* functions is a point where the other operations may run.                *)
(***************************************************************************)
EXTENDS Integers, Naturals, Sequences, FiniteSets, TLC

\* ---------------------------------------------------------------- bounds
MaxOps == 2      \* calls of chainWithPendingUpdates in one run
NumDocs == 1     \* notebook documents
NumCells == 1    \* cells of each notebook document

\* ---------------------------------------------------------------- inputs
Docs == 1..NumDocs

\* A key of the WeakMap: <<d, 0>> is the NotebookDocument d itself,
\* <<d, c>> with c > 0 is the NotebookCell c of document d.
Keys == Docs \X (0..NumCells)

\* const notebook = 'notebook' in documentOrCell ? documentOrCell.notebook : documentOrCell
notebook(documentOrCell) == <<documentOrCell[1], 0>>

\* What an update callback has done when it completes (it returns, or the
\* promise it returned settles): added edits, added none, or thrown / rejected.
Completions == {"edits", "empty", "throws"}

\* edit.size after the update callback has completed
editSize(completion) == IF completion = "edits" THEN 1 ELSE 0

\* what workspace.applyEdit can settle with: a boolean, or a rejection
ApplyOutcomes == {"true", "false", "rejected"}

\* ----------------------------------------------------------------- state
VARIABLES
    ops,                 \* the calls made so far, in submission order:
                         \* [key, pendingUpdates] (pendingUpdates: the call whose
                         \* aggregatedPromise it chained on, 0 for Promise.resolve())
    phase,               \* where each call's .finally callback stands
    completion,          \* what each call's update callback did
    applyResult,         \* what workspace.applyEdit settled with for each call
    outcome,             \* the promise returned to each caller
    pendingCellUpdates,  \* key -> call whose aggregatedPromise is stored, 0 = no entry
    isClosed,            \* NotebookDocument.isClosed of each document
    microtasks           \* FIFO queue of promise reaction jobs <<kind, call>>

vars == <<ops, phase, completion, applyResult, outcome, pendingCellUpdates, isClosed, microtasks>>

OpIds == 1..Len(ops)

Init ==
    /\ ops = <<>>
    /\ phase = <<>>
    /\ completion = <<>>
    /\ applyResult = <<>>
    /\ outcome = <<>>
    /\ pendingCellUpdates = [k \in Keys |-> 0]
    /\ isClosed = [d \in Docs |-> FALSE]
    /\ microtasks = <<>>

\* pendingCellUpdates.has(key)
has(key) == pendingCellUpdates[key] # 0

\* pendingCellUpdates.get(key): 0 stands for undefined
get(key) == pendingCellUpdates[key]

\* a promise a call can chain on is settled: Promise.resolve(), or the
\* aggregatedPromise of a call whose callback has completed
PromiseSettled(p) == p = 0 \/ phase[p] = "done"

\* ------------------------------------------------- chainWithPendingUpdates
\* a call is recorded: its chain position, its phase and the promise it returns
NewCall(documentOrCell, pendingUpdates, ph, out) ==
    /\ ops' = Append(ops, [key |-> documentOrCell, pendingUpdates |-> pendingUpdates])
    /\ phase' = Append(phase, ph)
    /\ completion' = Append(completion, "none")
    /\ applyResult' = Append(applyResult, "none")
    /\ outcome' = Append(outcome, out)

\* a closed notebook's call that also drops the entry of its key
ClosedReturn_deletesEntry(documentOrCell) ==
    /\ NewCall(documentOrCell, 0, "returned", "true")
    /\ pendingCellUpdates' = [pendingCellUpdates EXCEPT ![documentOrCell] = 0]
    /\ UNCHANGED <<isClosed, microtasks>>

\* a closed notebook's call that is enqueued like one of an open notebook
ClosedReturn_enqueues(documentOrCell) ==
    /\ NewCall(documentOrCell, 0, "queued", "pending")
    /\ microtasks' = Append(microtasks, <<"run", Len(ops) + 1>>)
    /\ pendingCellUpdates' = [pendingCellUpdates EXCEPT ![documentOrCell] = Len(ops) + 1]
    /\ UNCHANGED isClosed

\* if (notebook.isClosed) { return true; }
ClosedReturn(documentOrCell) ==
    /\ NewCall(documentOrCell, 0, "returned", "true")
    /\ UNCHANGED <<pendingCellUpdates, isClosed, microtasks>>

\* pendingCellUpdates.has(notebook) ? pendingCellUpdates.get(documentOrCell)! : Promise.resolve()
pendingUpdatesOf(documentOrCell) ==
    IF has(notebook(documentOrCell)) THEN get(documentOrCell) ELSE 0

\* get() returned undefined and `undefined.finally` throws a TypeError: the
\* async function rejects before anything is stored.
ThrowsTypeError(documentOrCell) ==
    has(notebook(documentOrCell)) /\ ~has(documentOrCell)

\* pendingCellUpdates.set(documentOrCell, aggregatedPromise)
setPending(documentOrCell, id) == [pendingCellUpdates EXCEPT ![documentOrCell] = id]

chainWithPendingUpdates(documentOrCell) ==
    LET id == Len(ops) + 1
        pendingUpdates == pendingUpdatesOf(documentOrCell)
    IN
    /\ Len(ops) < MaxOps
    /\ IF isClosed[documentOrCell[1]]
       THEN ClosedReturn(documentOrCell)
       ELSE IF ThrowsTypeError(documentOrCell)
       THEN /\ NewCall(documentOrCell, 0, "threw", "rejected")
            /\ UNCHANGED <<pendingCellUpdates, isClosed, microtasks>>
       ELSE \* .finally on a settled promise queues its reaction at once
            /\ IF PromiseSettled(pendingUpdates)
               THEN /\ NewCall(documentOrCell, pendingUpdates, "queued", "pending")
                    /\ microtasks' = Append(microtasks, <<"run", id>>)
               ELSE /\ NewCall(documentOrCell, pendingUpdates, "waiting", "pending")
                    /\ UNCHANGED microtasks
            /\ pendingCellUpdates' = setPending(documentOrCell, id)
            /\ UNCHANGED isClosed

\* ------------------------------------------------ the .finally callback
\* a rejection that reaches every caller still waiting
settleDeferred_rejectsAll(o, result) ==
    [s \in OpIds |-> IF s = o \/ (result = "rejected" /\ outcome[s] = "pending")
                     THEN result ELSE outcome[s]]

\* deferred.resolve(true) whatever applyEdit returned
settleDeferred_resolvesTrue(o, result) ==
    [outcome EXCEPT ![o] = IF result = "rejected" THEN "rejected" ELSE "true"]

\* deferred.resolve(result) / deferred.reject(ex)
settleDeferred(o, result) == [outcome EXCEPT ![o] = result]

\* the calls whose .finally reaction is registered on o's aggregatedPromise
Successors(o) == {s \in OpIds : ops[s].pendingUpdates = o /\ phase[s] = "waiting"}

RECURSIVE RunJobs(_, _)
\* the reactions of the calls in S, in registration order
RunJobs(S, from) ==
    IF from > Len(ops) THEN <<>>
    ELSE IF from \in S THEN <<(<<"run", from>>)>> \o RunJobs(S, from + 1)
    ELSE RunJobs(S, from + 1)

\* The callback of call o returns or throws; .catch(noop) resolves
\* aggregatedPromise either way and the reactions registered on it are
\* queued behind the jobs in `rest`.
CallbackCompletes(o, rest) ==
    /\ phase' = [s \in OpIds |->
                    IF s = o THEN "done"
                    ELSE IF s \in Successors(o) THEN "queued" ELSE phase[s]]
    /\ microtasks' = rest \o RunJobs(Successors(o), 1)

\* `if (edit.size === 0) return;` else `workspace.applyEdit(edit)`: the
\* callback completes, or suspends on the apply.
AfterUpdate(o, done, rest) ==
    IF done = "throws" \/ editSize(done) = 0
    THEN CallbackCompletes(o, rest)
    ELSE /\ phase' = [phase EXCEPT ![o] = "applying"]
         /\ microtasks' = rest

\* The reaction of .finally: the callback starts and calls update(edit),
\* which returns a promise, or returns void having run to its end (or throws).
RunCallback(result) ==
    /\ microtasks # <<>>
    /\ LET o == Head(microtasks)[2] IN
       IF result = "promise"
       THEN \* isPromise(result): await result
            /\ phase' = [phase EXCEPT ![o] = "updating"]
            /\ microtasks' = Tail(microtasks)
            /\ UNCHANGED completion
       ELSE /\ completion' = [completion EXCEPT ![o] = result]
            /\ AfterUpdate(o, result, Tail(microtasks))
    /\ UNCHANGED <<ops, applyResult, outcome, pendingCellUpdates, isClosed>>

\* The promise returned by update settles (with the microtask queue empty)
\* and the callback continues after `await result`.
UpdateSettles(o, done) ==
    /\ microtasks = <<>>
    /\ phase[o] = "updating"
    /\ completion' = [completion EXCEPT ![o] = done]
    /\ AfterUpdate(o, done, <<>>)
    /\ UNCHANGED <<ops, applyResult, outcome, pendingCellUpdates, isClosed>>

\* workspace.applyEdit settles (a host event: the microtask queue is empty):
\* .then((result) => deferred.resolve(result), (ex) => deferred.reject(ex))
\* runs and the callback returns.
ApplyEditSettles(o, result) ==
    /\ microtasks = <<>>
    /\ phase[o] = "applying"
    /\ applyResult' = [applyResult EXCEPT ![o] = result]
    /\ outcome' = settleDeferred(o, result)
    /\ CallbackCompletes(o, <<>>)
    /\ UNCHANGED <<ops, completion, pendingCellUpdates, isClosed>>

\* ------------------------------------ clearPendingChainedUpdatesForTests
\* editor: the document of window.activeNotebookEditor, 0 when there is none
clearPendingChainedUpdatesForTests(editor) ==
    /\ pendingCellUpdates' =
          [k \in Keys |-> IF editor # 0 /\ k[1] = editor THEN 0 ELSE pendingCellUpdates[k]]
    /\ pendingCellUpdates' # pendingCellUpdates
    /\ UNCHANGED <<ops, phase, completion, applyResult, outcome, isClosed, microtasks>>

\* ---------------------------------------------------------- environment
\* VS Code closes a notebook document (a host event).
CloseDocument(d) ==
    /\ microtasks = <<>>
    /\ ~isClosed[d]
    /\ isClosed' = [isClosed EXCEPT ![d] = TRUE]
    /\ UNCHANGED <<ops, phase, completion, applyResult, outcome, pendingCellUpdates, microtasks>>

\* ======================================================================
\* The interactive window (class InteractiveBase): kernel restart and
\* interrupt, the cells and status items still outstanding, and the shared
\* connection / notebook attempts.  Its state is declared here because every
\* specification of the module has to say what happens to it; its
\* operations follow the properties of the update queue below.
\* ======================================================================

\* ---------------------------------------------------------------- bounds
MaxCalls == 2        \* calls of restartKernel, interruptKernel,
                     \* ensureConnectionAndNotebook and ensureNotebook in one run
NumCellIds == 1      \* distinct cell ids; also the longest unfinishedCells list
MaxStatus == 1       \* status items created through setStatus

CellIds == 1..NumCellIds

\* CellState of a cell handed to sendCellsToWebView
CellStates == {"init", "executing", "finished", "error"}

VARIABLES
    _notebook,                     \* "undefined", or the INotebook: "live" / "disposed"
    restartingKernel,              \* private restartingKernel: boolean
    unfinishedCells,               \* private unfinishedCells: ICell[] (cell ids)
    potentiallyUnfinishedStatus,   \* private potentiallyUnfinishedStatus: Disposable[]
    connectionAndNotebookPromise,  \* stored attempt (index of attempts), 0 = undefined
    notebookPromise,               \* stored attempt (index of attempts), 0 = undefined
    calls,                         \* the calls made so far and where each stands
    attempts,                      \* executions of ensureConnectionAndNotebookImpl
                                   \* and ensureNotebookImpl, and how each stands
    statusDisposed,                \* for each status item of setStatus: disposed?
    finishCellError,               \* per cell id: the last message posted for it
                                   \* is FinishCell, with the cell in error state
    received                       \* per cell id: the last state, executing aside,
                                   \* in which sendCellsToWebView received it since
                                   \* the last restart was init

wvars == <<_notebook, restartingKernel, unfinishedCells, potentiallyUnfinishedStatus,
           connectionAndNotebookPromise, notebookPromise, calls, attempts,
           statusDisposed, finishCellError, received>>

CallIds == 1..Len(calls)
AttemptIds == 1..Len(attempts)

\* A window that has not connected yet, or one whose notebook has been
\* created by an earlier ensureConnectionAndNotebook (attempt 1, which
\* awaited ensureNotebook's attempt 2).
WindowInit ==
    /\ restartingKernel = FALSE
    /\ unfinishedCells = <<>>
    /\ potentiallyUnfinishedStatus = <<>>
    /\ calls = <<>>
    /\ statusDisposed = <<>>
    /\ finishCellError = [id \in CellIds |-> FALSE]
    /\ received = [id \in CellIds |-> FALSE]
    /\ \/ /\ _notebook = "undefined"
          /\ connectionAndNotebookPromise = 0
          /\ notebookPromise = 0
          /\ attempts = <<>>
       \/ /\ _notebook = "live"
          /\ connectionAndNotebookPromise = 1
          /\ notebookPromise = 2
          /\ attempts = << [kind |-> "connection", pc |-> "resolved", waits |-> 2],
                           [kind |-> "notebook", pc |-> "resolved", waits |-> 0] >>

Next ==
    \/ \E k \in Keys : chainWithPendingUpdates(k) /\ UNCHANGED wvars
    \/ \E r \in {"promise"} \cup Completions : RunCallback(r) /\ UNCHANGED wvars
    \/ \E o \in OpIds, c \in Completions : UpdateSettles(o, c) /\ UNCHANGED wvars
    \/ \E o \in OpIds, r \in ApplyOutcomes : ApplyEditSettles(o, r) /\ UNCHANGED wvars
    \/ \E e \in Docs \cup {0} : clearPendingChainedUpdatesForTests(e) /\ UNCHANGED wvars
    \/ \E d \in Docs : CloseDocument(d) /\ UNCHANGED wvars

\* the update queue, in a window that connects to no notebook
QueueInit == Init /\ WindowInit /\ attempts = <<>>

Spec == QueueInit /\ [][Next]_<<vars, wvars>>

\* ----------------------------------------------------------- type check
TypeOK ==
    /\ Len(ops) <= MaxOps
    /\ Len(phase) = Len(ops) /\ Len(completion) = Len(ops)
    /\ Len(outcome) = Len(ops) /\ Len(applyResult) = Len(ops)
    /\ \A o \in OpIds :
        /\ ops[o].key \in Keys
        /\ ops[o].pendingUpdates \in 0..(o - 1)
        /\ phase[o] \in {"returned", "threw", "waiting", "queued", "updating", "applying",
                         "done"}
        /\ completion[o] \in {"none"} \cup Completions
        /\ outcome[o] \in {"pending", "true", "false", "rejected"}
        /\ applyResult[o] \in {"none"} \cup ApplyOutcomes
    /\ pendingCellUpdates \in [Keys -> 0..MaxOps]
    /\ isClosed \in [Docs -> BOOLEAN]

\* ------------------------------------------------------ claim vocabulary
\* the call was enqueued: the notebook was open and nothing threw
Accepted(o) == phase[o] \notin {"returned", "threw"}

\* the update callback of the call has been invoked
Started(o) == phase[o] \in {"updating", "applying", "done"}

\* in flight: the update callback has started and the callback has not yet
\* completed (its workspace.applyEdit, if any, has not settled)
InFlight(o) == phase[o] \in {"updating", "applying"}

\* the callback has completed and aggregatedPromise has resolved
Settled(o) == phase[o] = "done"

SameKey(a, b) == ops[a].key = ops[b].key
SameNotebook(a, b) == ops[a].key[1] = ops[b].key[1]

\* the callback of call b is invoked in this step
Starts(b) == ~Started(b) /\ phase'[b] \in {"updating", "applying", "done"}

\* ------------------------------------------------------------------ C1
\* C1: for any single key, at most one operation is in flight at any time.
C1_AtMostOneInFlightPerKey ==
    \A a, b \in OpIds : (a # b /\ SameKey(a, b)) => ~(InFlight(a) /\ InFlight(b))

\* ------------------------------------------------------------------ C2
\* C2: under one key the update callbacks are invoked in submission order,
\* and a callback is not invoked until every operation submitted before it
\* under that key has settled.
C2_InvokedInOrderAfterPreviousSettled ==
    [][\A b \in OpIds : Starts(b) =>
          \A a \in OpIds : (a < b /\ Accepted(a) /\ SameKey(a, b)) => Settled(a)]_vars

\* ------------------------------------------------------------------ C3
\* C3: updates to one notebook are never performed in parallel: a call's
\* update callback does not start until every earlier call on the same
\* notebook, keyed by the document or by any of its cells, has settled.
C3_NotebookUpdatesNeverParallel ==
    [][\A b \in OpIds : Starts(b) =>
          \A a \in OpIds : (a < b /\ Accepted(a) /\ SameNotebook(a, b)) => Settled(a)]_vars

\* ------------------------------------------------------------------ C4
\* C4: a rejection of workspace.applyEdit is delivered to the promise of the
\* operation whose edit it was and to no other caller (a caller's promise
\* rejects only for its own apply, or for the TypeError of its own call), and
\* the operations queued behind the rejected one are not aborted: once it has
\* rejected, each of them is scheduled or has run.
C4_RejectionOnlyToOwnCaller ==
    \A o \in OpIds :
        /\ applyResult[o] = "rejected" => outcome[o] = "rejected"
        /\ outcome[o] = "rejected" => (applyResult[o] = "rejected" \/ phase[o] = "threw")
        /\ \A s \in OpIds :
              (applyResult[o] = "rejected" /\ ops[s].pendingUpdates = o)
                  => (phase[s] # "waiting" /\ outcome[s] \in {"pending", applyResult[s]})

\* a rejected apply whose queued successor has run its callback and its apply
C4_Witness ==
    \E o, s \in OpIds :
        /\ ops[s].pendingUpdates = o
        /\ applyResult[o] = "rejected" /\ outcome[o] = "rejected"
        /\ completion[s] = "edits" /\ applyResult[s] = "true" /\ outcome[s] = "true"
\* ------------------------------------------------------------------ C5
\* C5: an operation whose update callback adds no edits does not call
\* workspace.applyEdit, and the operations submitted after it on its key run
\* after it: when it completes, none of them has started yet.
C5_NoEditsNoApplyAndOrderKept ==
    [][\A a \in OpIds : (completion[a] = "none" /\ completion'[a] = "empty") =>
          /\ phase'[a] = "done" /\ applyResult'[a] = "none"
          /\ \A b \in OpIds : (a < b /\ Accepted(b) /\ SameKey(a, b)) => ~Started(b)]_vars

\* ------------------------------------------------------------------ C6
\* C6: every call on an open document reports an outcome to its caller, also
\* when its update callback contributes no edits: once the call's callback has
\* completed (without throwing), the returned promise has resolved or rejected.
C6_OutcomeReported ==
    \A o \in OpIds :
        (Accepted(o) /\ Settled(o) /\ completion[o] # "throws") => outcome[o] # "pending"

\* ------------------------------------------------------------------ C7
\* C7: a call enqueued under key K waits on the chain stored under K (unless
\* that chain has already settled and there is nothing to wait for), and is
\* recorded under K as the new tail.
C7_ChainsOnStoredKey ==
    [][(Len(ops') = Len(ops) + 1 /\ phase'[Len(ops')] \notin {"returned", "threw"}) =>
          LET id == Len(ops')
              K == ops'[id].key
          IN /\ (has(K) /\ ~PromiseSettled(get(K))) => ops'[id].pendingUpdates = get(K)
             /\ pendingCellUpdates'[K] = id]_vars

\* ------------------------------------------------------------------ C8
\* C8: the promise returned for an operation with a non-empty edit resolves
\* with exactly the boolean workspace.applyEdit returned for that operation's
\* own edit, and stays pending until that apply has settled.
C8_ResolvesWithOwnApplyResult ==
    \A o \in OpIds :
        completion[o] = "edits" =>
            /\ applyResult[o] \in {"true", "false"} => outcome[o] = applyResult[o]
            /\ outcome[o] \in {"true", "false"} => outcome[o] = applyResult[o]
            /\ applyResult[o] = "none" => outcome[o] = "pending"

\* two operations whose applies returned different booleans, each resolved
\* with its own
C8_Witness ==
    \E a, b \in OpIds :
        /\ completion[a] = "edits" /\ applyResult[a] = "true" /\ outcome[a] = "true"
        /\ completion[b] = "edits" /\ applyResult[b] = "false" /\ outcome[b] = "false"

\* ------------------------------------------------------------------ C9
\* C9 as stated: no entry of a closed document or of its cells remains in
\* pendingCellUpdates.
C9_NoEntryForClosedDocument ==
    \A k \in Keys : isClosed[k[1]] => ~has(k)

\* C9 as amended: closing a document removes nothing from pendingCellUpdates;
\* an entry is removed only by clearPendingChainedUpdatesForTests, for the
\* document of the active notebook editor; and once a document is closed no
\* call stores an entry for it or for its cells.
C9_EntriesRemovedOnlyByClear ==
    [][/\ (isClosed' # isClosed) => pendingCellUpdates' = pendingCellUpdates
       /\ \A k \in Keys :
            /\ (has(k) /\ pendingCellUpdates'[k] = 0)
                  => clearPendingChainedUpdatesForTests(k[1])
            /\ (isClosed[k[1]] /\ pendingCellUpdates'[k] # pendingCellUpdates[k])
                  => pendingCellUpdates'[k] = 0]_vars

\* a closed document whose entry is still stored after a call on the closed
\* document has returned
C9_Witness ==
    \E d \in Docs :
        /\ isClosed[d]
        /\ has(<<d, 0>>)
        /\ \E o \in OpIds : phase[o] = "returned" /\ ops[o].key[1] = d

\* ----------------------------------------------------------------- C10
\* C10: an operation accepted on an open document is never withdrawn (it stays
\* registered on its chain or queued until its callback starts, whatever else
\* is called), its callback is invoked once, and that happens after the
\* earlier operations on its key have settled.
C10_NeverWithdrawnInvokedOnceInOrder ==
    [][\A o \in OpIds : Accepted(o) =>
          /\ Accepted(o)'
          /\ phase[o] = "waiting" => phase'[o] \in {"waiting", "queued"}
          /\ phase'[o] = "queued" =>
                Cardinality({i \in 1..Len(microtasks') : microtasks'[i] = <<"run", o>>}) = 1
          /\ Started(o) =>
                /\ Started(o)'
                /\ \A i \in 1..Len(microtasks') : microtasks'[i] # <<"run", o>>
          /\ Starts(o) =>
                \A a \in OpIds : (a < o /\ Accepted(a) /\ SameKey(a, o)) => Settled(a)]_vars
\* ----------------------------------------------------------------- C11
\* C11: a call for a document, or for a cell of a document, that is already
\* closed returns true, leaves pendingCellUpdates and the queued reactions as
\* they are, and its update callback and workspace.applyEdit are never run.
C11_ClosedCallReturnsTrueUntouched ==
    [][/\ (Len(ops') = Len(ops) + 1 /\ isClosed[ops'[Len(ops')].key[1]]) =>
            /\ phase'[Len(ops')] = "returned"
            /\ outcome'[Len(ops')] = "true"
            /\ pendingCellUpdates' = pendingCellUpdates
            /\ microtasks' = microtasks
       /\ \A o \in OpIds : phase[o] = "returned" =>
            /\ phase'[o] = "returned" /\ outcome'[o] = "true"
            /\ completion'[o] = "none" /\ applyResult'[o] = "none"]_vars

\* calls on a closed document and on a cell of a closed document have returned
C11_Witness ==
    \E a, b \in OpIds :
        /\ phase[a] = "returned" /\ ops[a].key[2] = 0 /\ outcome[a] = "true"
        /\ phase[b] = "returned" /\ ops[b].key[2] # 0 /\ outcome[b] = "true"
        /\ isClosed[ops[a].key[1]] /\ isClosed[ops[b].key[1]]

\* ----------------------------------------------------------------- C12
\* C12: when an operation's update callback throws or its promise rejects,
\* the promise returned to that operation's caller rejects (and later
\* operations on the key still run: once it has completed, none of the calls
\* registered behind it is left waiting).
C12_UpdateFailureReported ==
    \A o \in OpIds :
        (Settled(o) /\ completion[o] = "throws") =>
            /\ outcome[o] = "rejected"
            /\ \A s \in OpIds : ops[s].pendingUpdates = o => phase[s] # "waiting"

\* ----------------------------------------------------------------- C13
\* C13: a call with a cell key on an open notebook never fails before its
\* update callback is invoked.
C13_CellCallNeverThrows ==
    \A o \in OpIds : ops[o].key[2] # 0 => phase[o] # "threw"

\* ----------------------------------------------------------------- C14
\* C14: after a notebook has closed no update callback is invoked for it and
\* no edit is applied to it, also for operations enqueued while it was open.
C14_NothingRunsAfterClose ==
    [][\A o \in OpIds :
          (Starts(o) \/ (phase[o] # "applying" /\ phase'[o] = "applying"))
              => ~isClosed[ops[o].key[1]]]_vars

\* ======================================================================
\* The interactive window: operations
\* ======================================================================
cellVars == <<unfinishedCells, potentiallyUnfinishedStatus, statusDisposed, finishCellError, received>>
connVars == <<_notebook, connectionAndNotebookPromise, notebookPromise, attempts>>

\* A call as it starts: where it stands (pc), the attempt it awaits, whether
\* it posted StartProgress / StopProgress, the status item of
\* restartKernelInternal, and the exception its catch block received.
NewWindowCall(kind, pc) ==
    [kind |-> kind, pc |-> pc, waits |-> 0, progress |-> "none", status |-> "none",
     caught |-> "none"]

SetCall(p, c) == IF p = Len(calls) + 1 THEN Append(calls, c) ELSE [calls EXCEPT ![p] = c]

\* ------------------------------------------- sendCellsToWebView (760-793)
\* the message posted for a cell in a given state
messageFor(state) ==
    CASE state = "init" -> "StartCell"
      [] state = "executing" -> "UpdateCellWithExecutionResults"
      [] OTHER -> "FinishCell"

unfinishedAfter_executingPushes(cells, id, state) ==
    CASE state \in {"init", "executing"} -> Append(cells, id)
      [] state \in {"error", "finished"} -> SelectSeq(cells, LAMBDA c : c # id)
      [] OTHER -> cells

\* unfinishedCells after the switch on cell.state
unfinishedAfter(cells, id, state) ==
    CASE state = "init" -> Append(cells, id)
      [] state \in {"error", "finished"} -> SelectSeq(cells, LAMBDA c : c # id)
      [] OTHER -> cells

\* history kept for the properties: was init the last state other than
\* executing in which a cell id was received
receivedAfter(before, state) ==
    CASE state = "init" -> TRUE
      [] state \in {"error", "finished"} -> FALSE
      [] OTHER -> before

\* one cell of the list handed to sendCellsToWebView
sendCellsToWebView(id, state) ==
    /\ state = "init" => Len(unfinishedCells) < NumCellIds
    /\ unfinishedCells' = unfinishedAfter(unfinishedCells, id, state)
    /\ finishCellError' = [finishCellError EXCEPT
                              ![id] = messageFor(state) = "FinishCell" /\ state = "error"]
    /\ received' = [received EXCEPT ![id] = receivedAfter(@, state)]
    /\ UNCHANGED <<potentiallyUnfinishedStatus, statusDisposed, restartingKernel, calls>>
    /\ UNCHANGED connVars

\* ------------------------------------------------------ setStatus (816-820)
setStatus ==
    /\ Len(statusDisposed) < MaxStatus
    /\ statusDisposed' = Append(statusDisposed, FALSE)
    /\ potentiallyUnfinishedStatus' = Append(potentiallyUnfinishedStatus, Len(statusDisposed) + 1)
    /\ UNCHANGED <<unfinishedCells, finishCellError, received, restartingKernel, calls>>
    /\ UNCHANGED connVars

\* the caller of setStatus disposes its status item (submitCode, 708-722)
StatusDispose(s) ==
    /\ s \in 1..Len(statusDisposed)
    /\ ~statusDisposed[s]
    /\ statusDisposed' = [statusDisposed EXCEPT ![s] = TRUE]
    /\ UNCHANGED <<unfinishedCells, potentiallyUnfinishedStatus, finishCellError, received,
                   restartingKernel, calls>>
    /\ UNCHANGED connVars

\* ------------------------------------------ finishOutstandingCells (1061-1072)
InList(list, x) == \E i \in 1..Len(list) : list[i] = x

finishOutstandingCells ==
    /\ unfinishedCells' = <<>>
    /\ finishCellError' = [id \in CellIds |->
                              InList(unfinishedCells, id) \/ finishCellError[id]]
    /\ potentiallyUnfinishedStatus' = <<>>
    /\ statusDisposed' = [s \in 1..Len(statusDisposed) |->
                             statusDisposed[s] \/ InList(potentiallyUnfinishedStatus, s)]
    /\ received' = [id \in CellIds |-> FALSE]

\* --------------------------------------- restartKernelInternal (1074-1124)
finished_keepsStatus(c, pc) ==
    [c EXCEPT !.pc = pc, !.waits = 0,
              !.progress = IF c.kind = "restartKernel" THEN "stopped" ELSE c.progress]

\* the finally block (status.dispose(); restartingKernel = false), followed
\* for restartKernel by its own finally block (stopProgress, 442-445)
finished(c, pc) ==
    [c EXCEPT !.pc = pc, !.waits = 0, !.status = "disposed",
              !.progress = IF c.kind = "restartKernel" THEN "stopped" ELSE c.progress]

\* restartKernelInternal from its first line up to its first await; c is
\* the calling restartKernel or interruptKernel
restartKernelInternal(p, c) ==
    /\ finishOutstandingCells
    /\ IF _notebook # "undefined"
       THEN /\ restartingKernel' = TRUE
            /\ calls' = SetCall(p, [c EXCEPT !.pc = "settings", !.status = "shown"])
       ELSE /\ restartingKernel' = FALSE
            /\ calls' = SetCall(p, finished(c, "done"))
    /\ UNCHANGED connVars

\* generateDataScienceExtraSettings has resolved (1092): notebook.restartKernel is called
CallNotebookRestartKernel(p) ==
    /\ p \in CallIds /\ calls[p].pc = "settings"
    /\ calls' = [calls EXCEPT ![p].pc = "restarting"]
    /\ UNCHANGED restartingKernel
    /\ UNCHANGED cellVars
    /\ UNCHANGED connVars

\* the catch block (1109-1119) up to its first await, or to the finally block
catch(p, exc) ==
    IF exc = "JupyterKernelPromiseFailedError" /\ _notebook # "undefined"
    THEN /\ _notebook' = "disposed"
         /\ calls' = [calls EXCEPT ![p].pc = "disposing", ![p].caught = exc]
         /\ UNCHANGED <<restartingKernel, connectionAndNotebookPromise, notebookPromise, attempts>>
    ELSE /\ calls' = [calls EXCEPT ![p] = finished([@ EXCEPT !.caught = exc], "done")]
         /\ restartingKernel' = FALSE
         /\ UNCHANGED connVars

RestartResults == {"ok", "JupyterKernelPromiseFailedError", "error"}

\* notebook.restartKernel settles (1091-1094)
NotebookRestartSettles(p, r) ==
    /\ p \in CallIds /\ calls[p].pc = "restarting"
    /\ IF r = "ok"
       THEN /\ calls' = [calls EXCEPT ![p].pc = "sysinfo"]
            /\ UNCHANGED restartingKernel
            /\ UNCHANGED connVars
       ELSE catch(p, r)
    /\ UNCHANGED cellVars

\* addSysInfo(SysInfoReason.Restart) returns (1094 and 1115; it rejects its
\* deferred and never throws, 851-853)
AddSysInfoSettles(p) ==
    /\ p \in CallIds /\ calls[p].pc \in {"sysinfo", "sysinfo2"}
    /\ IF calls[p].pc = "sysinfo"
       THEN /\ calls' = [calls EXCEPT ![p].pc = "styling"]
            /\ UNCHANGED restartingKernel
       ELSE /\ calls' = [calls EXCEPT ![p] = finished(@, "done")]
            /\ restartingKernel' = FALSE
    /\ UNCHANGED cellVars
    /\ UNCHANGED connVars

\* setFileInKernel, isDark and setMatplotLibStyle have settled (1096-1107)
StyleSettles(p, r) ==
    /\ p \in CallIds /\ calls[p].pc = "styling"
    /\ IF r = "ok"
       THEN /\ calls' = [calls EXCEPT ![p] = finished(@, "done")]
            /\ restartingKernel' = FALSE
            /\ UNCHANGED connVars
       ELSE catch(p, r)
    /\ UNCHANGED cellVars

\* ------------------------------------------------ restartKernel (412-447)
restartKernel_ignoresFlag(notebookField, restarting) == notebookField # "undefined"

\* if (this._notebook && !this.restartingKernel), also of interruptKernel (450)
mayRestartOrInterrupt(notebookField, restarting) ==
    notebookField # "undefined" /\ ~restarting

\* ask: what shouldAskForRestart reads from the settings (1020-1023)
restartKernel(ask) ==
    /\ Len(calls) < MaxCalls
    /\ LET p == Len(calls) + 1
           c == [NewWindowCall("restartKernel", "prompt") EXCEPT !.progress = "started"]
       IN  IF mayRestartOrInterrupt(_notebook, restartingKernel)
           THEN IF ask
                THEN /\ restartingKernel' = TRUE
                     /\ calls' = Append(calls, c)
                     /\ UNCHANGED cellVars
                     /\ UNCHANGED connVars
                ELSE restartKernelInternal(p, c)
           ELSE /\ calls' = Append(calls, NewWindowCall("restartKernel", "returned"))
                /\ UNCHANGED restartingKernel
                /\ UNCHANGED cellVars
                /\ UNCHANGED connVars

\* the user answers the prompt of restartKernel (427-437)
RestartPromptAnswered(p, v) ==
    /\ p \in CallIds /\ calls[p].kind = "restartKernel" /\ calls[p].pc = "prompt"
    /\ IF v \in {"yes", "dontAskAgain"}
       THEN restartKernelInternal(p, calls[p])
       ELSE /\ restartingKernel' = FALSE
            /\ calls' = [calls EXCEPT ![p].pc = "done", ![p].progress = "stopped"]
            /\ UNCHANGED cellVars
            /\ UNCHANGED connVars

\* ---------------------------------------------- interruptKernel (449-487)
interruptKernel ==
    /\ Len(calls) < MaxCalls
    /\ calls' = Append(calls, NewWindowCall("interruptKernel",
                    IF mayRestartOrInterrupt(_notebook, restartingKernel)
                    THEN "interrupting" ELSE "returned"))
    /\ UNCHANGED restartingKernel
    /\ UNCHANGED cellVars
    /\ UNCHANGED connVars

InterruptResults == {"Success", "TimedOut", "Restarted", "throws"}

\* notebook.interruptKernel settles (461-478)
InterruptSettles(p, result) ==
    /\ p \in CallIds /\ calls[p].kind = "interruptKernel" /\ calls[p].pc = "interrupting"
    /\ calls' = [calls EXCEPT ![p].pc =
                    IF result = "TimedOut" /\ ~restartingKernel THEN "prompt" ELSE "done"]
    /\ UNCHANGED restartingKernel
    /\ UNCHANGED cellVars
    /\ UNCHANGED connVars

\* the user answers the prompt shown after a timed-out interrupt (469-476)
InterruptPromptAnswered(p, v) ==
    /\ p \in CallIds /\ calls[p].kind = "interruptKernel" /\ calls[p].pc = "prompt"
    /\ IF v = "yes"
       THEN restartKernelInternal(p, calls[p])
       ELSE /\ calls' = [calls EXCEPT ![p].pc = "done"]
            /\ UNCHANGED restartingKernel
            /\ UNCHANGED cellVars
            /\ UNCHANGED connVars

\* ------------------------------- ensureConnectionAndNotebook (861-879)
\* where a caller goes on when the promise it awaits resolves
contPc(c) == IF c.kind \in {"restartKernel", "interruptKernel"} THEN "sysinfo2" ELSE "done"

\* the callers awaiting an attempt of A go on
wake(cs, A) ==
    [i \in 1..Len(cs) |->
        IF cs[i].pc = "ensuring" /\ cs[i].waits \in A
        THEN [cs[i] EXCEPT !.pc = contPc(cs[i]), !.waits = 0]
        ELSE cs[i]]

fail_silently(cs, A) == wake(cs, A)

\* the callers awaiting an attempt of A get its error; inside
\* restartKernelInternal's catch block it leaves through the finally block
fail(cs, A) ==
    [i \in 1..Len(cs) |->
        IF cs[i].pc = "ensuring" /\ cs[i].waits \in A
        THEN IF cs[i].kind \in {"restartKernel", "interruptKernel"}
             THEN finished(cs[i], "failed")
             ELSE [cs[i] EXCEPT !.pc = "failed", !.waits = 0]
        ELSE cs[i]]

restartingAfterFail(A) ==
    IF \E i \in CallIds : /\ calls[i].pc = "ensuring" /\ calls[i].waits \in A
                          /\ calls[i].kind \in {"restartKernel", "interruptKernel"}
    THEN FALSE ELSE restartingKernel

startsAttempt_always(stored) == TRUE

\* if (!this.connectionAndNotebookPromise) (868), if (!this.notebookPromise) (885)
startsAttempt(stored) == stored = 0

ensureConnectionAndNotebook_keepsDisposed(p, c) ==
    LET stored == connectionAndNotebookPromise
        a == IF startsAttempt(stored) THEN Len(attempts) + 1 ELSE stored
    IN  /\ UNCHANGED <<_notebook, notebookPromise>>
        /\ connectionAndNotebookPromise' = a
        /\ attempts' = IF startsAttempt(stored)
                       THEN Append(attempts, [kind |-> "connection", pc |-> "connecting",
                                              waits |-> 0])
                       ELSE attempts
        /\ calls' = SetCall(p,
                        IF attempts'[a].pc = "resolved"
                        THEN [c EXCEPT !.pc = contPc(c), !.waits = 0]
                        ELSE [c EXCEPT !.pc = "ensuring", !.waits = a])

\* ensureConnectionAndNotebook up to its await, called by p (c: p so far)
ensureConnectionAndNotebook(p, c) ==
    LET reset == _notebook = "disposed"
        stored == IF reset THEN 0 ELSE connectionAndNotebookPromise
        a == IF startsAttempt(stored) THEN Len(attempts) + 1 ELSE stored
    IN  /\ _notebook' = IF reset THEN "undefined" ELSE _notebook
        /\ notebookPromise' = IF reset THEN 0 ELSE notebookPromise
        /\ connectionAndNotebookPromise' = a
        /\ attempts' = IF startsAttempt(stored)
                       THEN Append(attempts, [kind |-> "connection", pc |-> "connecting",
                                              waits |-> 0])
                       ELSE attempts
        /\ calls' = SetCall(p,
                        IF attempts'[a].pc = "resolved"
                        THEN [c EXCEPT !.pc = contPc(c), !.waits = 0]
                        ELSE [c EXCEPT !.pc = "ensuring", !.waits = a])

\* a caller outside restartKernelInternal (submitCode 641, 581)
EnsureConnectionAndNotebookCall ==
    /\ Len(calls) < MaxCalls
    /\ ensureConnectionAndNotebook(Len(calls) + 1,
                                   NewWindowCall("ensureConnectionAndNotebook", "ensuring"))
    /\ UNCHANGED restartingKernel
    /\ UNCHANGED cellVars

\* notebook.dispose() has settled in the catch block (1113-1114)
DisposeSettles(p) ==
    /\ p \in CallIds /\ calls[p].pc = "disposing"
    /\ ensureConnectionAndNotebook(p, calls[p])
    /\ UNCHANGED restartingKernel
    /\ UNCHANGED cellVars

\* --------------------- ensureNotebook (884-896), ensureNotebookImpl (1218-1236)
\* the execution of ensureNotebookImpl a call of ensureNotebook starts
\* when none is stored: it creates a notebook only if (!this._notebook)
newNotebookAttempt ==
    [kind |-> "notebook", pc |-> IF _notebook = "undefined" THEN "creating" ELSE "resolved",
     waits |-> 0]

attemptsAfterEnsureNotebook ==
    IF startsAttempt(notebookPromise) THEN Append(attempts, newNotebookAttempt) ELSE attempts

notebookPromiseAfterEnsureNotebook ==
    IF startsAttempt(notebookPromise) THEN Len(attempts) + 1 ELSE notebookPromise

\* createNotebookIfProviderConnectionExists calls ensureNotebook (910-916)
EnsureNotebookCall ==
    /\ Len(calls) < MaxCalls
    /\ LET n == notebookPromiseAfterEnsureNotebook
           c == NewWindowCall("ensureNotebook", "ensuring")
       IN  /\ attempts' = attemptsAfterEnsureNotebook
           /\ notebookPromise' = n
           /\ calls' = Append(calls, IF attempts'[n].pc = "resolved"
                                     THEN [c EXCEPT !.pc = "done"]
                                     ELSE [c EXCEPT !.waits = n])
    /\ UNCHANGED <<_notebook, connectionAndNotebookPromise, restartingKernel>>
    /\ UNCHANGED cellVars

\* -------------------------- ensureConnectionAndNotebookImpl (989-1011)
ConnectResults == {"connection", "undefined", "throws"}

\* notebookProvider.connect settles (992-1003)
ConnectSettles(a, r) ==
    /\ a \in AttemptIds /\ attempts[a].kind = "connection" /\ attempts[a].pc = "connecting"
    /\ CASE r = "throws" ->
              /\ attempts' = [attempts EXCEPT ![a].pc = "closing"]
              /\ UNCHANGED <<notebookPromise, calls>>
         [] r = "undefined" ->
              /\ attempts' = [attempts EXCEPT ![a].pc = "resolved"]
              /\ calls' = wake(calls, {a})
              /\ UNCHANGED notebookPromise
         [] OTHER ->
              LET n == notebookPromiseAfterEnsureNotebook
                  resolved == attemptsAfterEnsureNotebook[n].pc = "resolved"
              IN  /\ attempts' = [attemptsAfterEnsureNotebook EXCEPT
                                     ![a].pc = IF resolved THEN "resolved" ELSE "notebook",
                                     ![a].waits = n]
                  /\ notebookPromise' = n
                  /\ calls' = IF resolved THEN wake(calls, {a}) ELSE calls
    /\ UNCHANGED <<_notebook, connectionAndNotebookPromise, restartingKernel>>
    /\ UNCHANGED cellVars

\* createNotebook returns what getOrCreateNotebook gave, which line 1158
\* allows to be disposed, or undefined after the break of line 1184, or throws
CreateResults == {"live", "disposed", "undefined", "throws"}

\* createNotebook settles in ensureNotebookImpl (1229), and with it the
\* stored notebookPromise and every ensureConnectionAndNotebookImpl and
\* ensureNotebook caller awaiting it (888-895, 1001-1010)
CreateNotebookSettles(n, r) ==
    /\ n \in AttemptIds /\ attempts[n].kind = "notebook" /\ attempts[n].pc = "creating"
    /\ LET conns == {a \in AttemptIds : attempts[a].pc = "notebook" /\ attempts[a].waits = n}
       IN  IF r = "throws"
           THEN /\ attempts' = [a \in AttemptIds |->
                                   IF a = n THEN [attempts[a] EXCEPT !.pc = "rejected"]
                                   ELSE IF a \in conns
                                        THEN [attempts[a] EXCEPT !.pc = "closing"]
                                        ELSE attempts[a]]
                /\ notebookPromise' = 0
                /\ calls' = fail(calls, {n})
                /\ UNCHANGED _notebook
           ELSE /\ attempts' = [a \in AttemptIds |->
                                   IF a = n \/ a \in conns
                                   THEN [attempts[a] EXCEPT !.pc = "resolved"]
                                   ELSE attempts[a]]
                /\ _notebook' = r
                /\ calls' = wake(calls, {n} \cup conns)
                /\ UNCHANGED notebookPromise
    /\ UNCHANGED <<connectionAndNotebookPromise, restartingKernel>>
    /\ UNCHANGED cellVars

\* closeBecauseOfFailure has settled (1008): the attempt rejects, and every
\* caller awaiting it resets the stored promise and rethrows (871-878)
CloseBecauseOfFailureSettles(a) ==
    /\ a \in AttemptIds /\ attempts[a].pc = "closing"
    /\ attempts' = [attempts EXCEPT ![a].pc = "rejected"]
    /\ connectionAndNotebookPromise' = 0
    /\ calls' = fail(calls, {a})
    /\ restartingKernel' = restartingAfterFail({a})
    /\ UNCHANGED <<_notebook, notebookPromise>>
    /\ UNCHANGED cellVars

\* the notebook is disposed from outside the window (INotebook.dispose)
NotebookDisposed ==
    /\ _notebook = "live"
    /\ _notebook' = "disposed"
    /\ UNCHANGED <<connectionAndNotebookPromise, notebookPromise, attempts, restartingKernel,
                   calls>>
    /\ UNCHANGED cellVars

WindowNext ==
    \/ \E ask \in BOOLEAN : restartKernel(ask) /\ UNCHANGED vars
    \/ \E p \in CallIds, v \in {"yes", "dontAskAgain", "no"} :
          RestartPromptAnswered(p, v) /\ UNCHANGED vars
    \/ interruptKernel /\ UNCHANGED vars
    \/ \E p \in CallIds, r \in InterruptResults : InterruptSettles(p, r) /\ UNCHANGED vars
    \/ \E p \in CallIds, v \in {"yes", "no"} : InterruptPromptAnswered(p, v) /\ UNCHANGED vars
    \/ \E p \in CallIds : CallNotebookRestartKernel(p) /\ UNCHANGED vars
    \/ \E p \in CallIds, r \in RestartResults : NotebookRestartSettles(p, r) /\ UNCHANGED vars
    \/ \E p \in CallIds : AddSysInfoSettles(p) /\ UNCHANGED vars
    \/ \E p \in CallIds, r \in RestartResults : StyleSettles(p, r) /\ UNCHANGED vars
    \/ \E p \in CallIds : DisposeSettles(p) /\ UNCHANGED vars
    \/ EnsureConnectionAndNotebookCall /\ UNCHANGED vars
    \/ EnsureNotebookCall /\ UNCHANGED vars
    \/ \E a \in AttemptIds, r \in ConnectResults : ConnectSettles(a, r) /\ UNCHANGED vars
    \/ \E n \in AttemptIds, r \in CreateResults : CreateNotebookSettles(n, r) /\ UNCHANGED vars
    \/ \E a \in AttemptIds : CloseBecauseOfFailureSettles(a) /\ UNCHANGED vars
    \/ NotebookDisposed /\ UNCHANGED vars

\* The window with its kernel and connection operations; no cell is sent
\* and no status item is created.
KernelInit == Init /\ WindowInit

WindowSpec == KernelInit /\ [][WindowNext]_<<vars, wvars>>

\* The window with the cells and status items of its webview, and with the
\* two operations that restart the kernel; fewer calls are followed than
\* in WindowSpec, and the notebook exists at the start.
FewCalls == Len(calls) + 1 < MaxCalls

CellsNext ==
    \/ \E id \in CellIds, s \in CellStates : sendCellsToWebView(id, s) /\ UNCHANGED vars
    \/ setStatus /\ UNCHANGED vars
    \/ \E s \in 1..MaxStatus : StatusDispose(s) /\ UNCHANGED vars
    \/ \E ask \in BOOLEAN : FewCalls /\ restartKernel(ask) /\ UNCHANGED vars
    \/ \E p \in CallIds, v \in {"yes", "dontAskAgain", "no"} :
          RestartPromptAnswered(p, v) /\ UNCHANGED vars
    \/ FewCalls /\ interruptKernel /\ UNCHANGED vars
    \/ \E p \in CallIds, r \in InterruptResults : InterruptSettles(p, r) /\ UNCHANGED vars
    \/ \E p \in CallIds, v \in {"yes", "no"} : InterruptPromptAnswered(p, v) /\ UNCHANGED vars
    \/ \E p \in CallIds : CallNotebookRestartKernel(p) /\ UNCHANGED vars
    \/ \E p \in CallIds, r \in RestartResults : NotebookRestartSettles(p, r) /\ UNCHANGED vars
    \/ \E p \in CallIds : AddSysInfoSettles(p) /\ UNCHANGED vars
    \/ \E p \in CallIds, r \in RestartResults : StyleSettles(p, r) /\ UNCHANGED vars
    \/ \E p \in CallIds : DisposeSettles(p) /\ UNCHANGED vars
    \/ \E a \in AttemptIds, r \in ConnectResults : ConnectSettles(a, r) /\ UNCHANGED vars
    \/ \E n \in AttemptIds, r \in CreateResults : CreateNotebookSettles(n, r) /\ UNCHANGED vars
    \/ \E a \in AttemptIds : CloseBecauseOfFailureSettles(a) /\ UNCHANGED vars

CellsInit == Init /\ WindowInit /\ _notebook = "live"

CellsSpec == CellsInit /\ [][CellsNext]_<<vars, wvars>>

WindowTypeOK ==
    /\ _notebook \in {"undefined", "live", "disposed"}
    /\ restartingKernel \in BOOLEAN
    /\ Len(calls) <= MaxCalls
    /\ connectionAndNotebookPromise \in {0} \cup AttemptIds
    /\ notebookPromise \in {0} \cup AttemptIds
    /\ connectionAndNotebookPromise # 0 =>
          /\ attempts[connectionAndNotebookPromise].kind = "connection"
          /\ attempts[connectionAndNotebookPromise].pc # "rejected"
    /\ notebookPromise # 0 =>
          /\ attempts[notebookPromise].kind = "notebook"
          /\ attempts[notebookPromise].pc # "rejected"
    /\ \A p \in CallIds : calls[p].waits # 0 <=> calls[p].pc = "ensuring"

\* ======================================================================
\* Properties of the interactive window
\* ======================================================================
\* restartKernelInternal is running for call p
InRestartKernelInternal(p) ==
    calls[p].pc \in {"settings", "restarting", "sysinfo", "styling", "disposing", "ensuring",
                     "sysinfo2"}
           /\ calls[p].kind \in {"restartKernel", "interruptKernel"}

\* a call has been made in this step: its index
IsNewCall(kind) == Len(calls') = Len(calls) + 1 /\ calls'[Len(calls')].kind = kind

\* C15: a restartKernel call made while restartingKernel is true or while
\* there is no notebook returns at once: it shows no prompt, posts no
\* StartProgress, does not enter restartKernelInternal and leaves the
\* window as it was; a call that has returned this way does nothing later.
C15_RestartKernelIgnoredWhileRestarting ==
    [][/\ (IsNewCall("restartKernel") /\ (restartingKernel \/ _notebook = "undefined")) =>
            /\ calls' = Append(calls, NewWindowCall("restartKernel", "returned"))
            /\ restartingKernel' = restartingKernel
            /\ UNCHANGED cellVars
            /\ UNCHANGED connVars
       /\ \A p \in CallIds : calls[p].pc = "returned" => calls'[p] = calls[p]]_wvars

C15_Witness ==
    \E p, q \in CallIds :
        /\ p < q
        /\ calls[p].kind = "restartKernel" /\ calls[p].pc = "restarting"
        /\ restartingKernel
        /\ calls[q].kind = "restartKernel" /\ calls[q].pc = "returned"
        /\ calls[q].progress = "none"

\* C16: at most one execution of restartKernelInternal is in progress, so
\* notebook.restartKernel is never pending twice, and restartingKernel is
\* true while one is in progress.
C16_OneRestartAtATime ==
    /\ \A p, q \in CallIds :
          (InRestartKernelInternal(p) /\ InRestartKernelInternal(q)) => p = q
    /\ \A p \in CallIds : InRestartKernelInternal(p) => restartingKernel

\* C17: when notebook.restartKernel is called (the step from awaiting the
\* settings to awaiting the restart), unfinishedCells is empty, no cell
\* received in init state is still waiting for its FinishCell, and every
\* status item created through setStatus has been disposed.
C17_AllFinishedWhenRestartCalled ==
    [][\A p \in CallIds :
          (calls[p].pc = "settings" /\ calls'[p].pc = "restarting") =>
              /\ unfinishedCells = <<>>
              /\ \A id \in CellIds : ~received[id]
              /\ \A s \in 1..Len(statusDisposed) : statusDisposed[s]]_wvars

Pending(a) == attempts[a].pc \in {"connecting", "notebook", "closing", "creating"}

\* an execution of ensureConnectionAndNotebookImpl / ensureNotebookImpl starts in this step
StartsAttempt(kind) ==
    Len(attempts') = Len(attempts) + 1 /\ attempts'[Len(attempts')].kind = kind

\* C19: an execution of ensureConnectionAndNotebookImpl starts only when no
\* attempt is stored or the notebook is disposed, and one of
\* ensureNotebookImpl only when no attempt is stored; a call that finds a
\* stored attempt starts nothing and awaits that attempt.
C19_CallsShareOneAttempt ==
    [][/\ StartsAttempt("connection") =>
             (connectionAndNotebookPromise = 0 \/ _notebook = "disposed")
       /\ StartsAttempt("notebook") => notebookPromise = 0
       /\ (IsNewCall("ensureConnectionAndNotebook") /\ connectionAndNotebookPromise # 0
               /\ _notebook # "disposed") =>
             /\ attempts' = attempts
             /\ connectionAndNotebookPromise' = connectionAndNotebookPromise
             /\ IF Pending(connectionAndNotebookPromise)
                THEN calls'[Len(calls')].waits = connectionAndNotebookPromise
                ELSE calls'[Len(calls')].pc = "done"
       /\ (IsNewCall("ensureNotebook") /\ notebookPromise # 0) =>
             /\ attempts' = attempts
             /\ notebookPromise' = notebookPromise
             /\ IF Pending(notebookPromise)
                THEN calls'[Len(calls')].waits = notebookPromise
                ELSE calls'[Len(calls')].pc = "done"]_wvars

C19_Witness ==
    /\ \E p, q \in CallIds :
          /\ p < q
          /\ calls[p].kind = "ensureConnectionAndNotebook" /\ calls[p].pc = "ensuring"
          /\ calls[q].kind = "ensureConnectionAndNotebook" /\ calls[q].pc = "ensuring"
          /\ calls[p].waits = calls[q].waits
          /\ calls[p].waits = connectionAndNotebookPromise
    /\ Len(attempts) = 1

\* C20: when an attempt rejects, every caller awaiting it gets the error
\* (a call fails, an awaiting ensureConnectionAndNotebookImpl enters its
\* catch block) and the promise it was stored in becomes undefined; no
\* stored promise is a rejected one, and a call that finds no stored
\* promise starts a new attempt and awaits it.
C20_FailureResetsStoredPromise ==
    [][/\ \A a \in AttemptIds :
             (Pending(a) /\ attempts'[a].pc = "rejected") =>
                 /\ \A p \in CallIds : calls[p].waits = a => calls'[p].pc = "failed"
                 /\ \A c \in AttemptIds :
                       (attempts[c].pc = "notebook" /\ attempts[c].waits = a) =>
                           attempts'[c].pc = "closing"
                 /\ IF attempts[a].kind = "connection"
                    THEN connectionAndNotebookPromise' = 0
                    ELSE notebookPromise' = 0
       /\ connectionAndNotebookPromise' # 0 =>
             attempts'[connectionAndNotebookPromise'].pc # "rejected"
       /\ notebookPromise' # 0 => attempts'[notebookPromise'].pc # "rejected"
       /\ (IsNewCall("ensureConnectionAndNotebook") /\ connectionAndNotebookPromise = 0) =>
             /\ StartsAttempt("connection")
             /\ connectionAndNotebookPromise' = Len(attempts')
             /\ calls'[Len(calls')].waits = Len(attempts')
       /\ (IsNewCall("ensureNotebook") /\ notebookPromise = 0) =>
             /\ StartsAttempt("notebook")
             /\ notebookPromise' = Len(attempts')]_wvars

C20_Witness ==
    \E p, q \in CallIds :
        /\ p < q
        /\ calls[p].kind = "ensureConnectionAndNotebook" /\ calls[p].pc = "failed"
        /\ calls[q].kind = "ensureConnectionAndNotebook" /\ calls[q].pc = "ensuring"
        /\ Pending(calls[q].waits)
        /\ \E a \in AttemptIds : a < calls[q].waits /\ attempts[a].pc = "rejected"
                                  /\ attempts[a].kind = "connection"

\* call p of ensureConnectionAndNotebook resolves without error in this
\* step, on an attempt that had a provider connection and awaited ensureNotebook
ResolvesAfterConnection(p) ==
    /\ calls'[p].kind = "ensureConnectionAndNotebook" /\ calls'[p].pc = "done"
    /\ p \in CallIds => calls[p].pc = "ensuring"
    /\ attempts'[IF p \in CallIds THEN calls[p].waits
                 ELSE connectionAndNotebookPromise'].waits # 0

\* C21: when ensureConnectionAndNotebook resolves without error after a
\* provider connection, the window has a notebook that is not disposed,
\* also when the call only returned the stored success.
C21_ResolvedMeansNotebook ==
    [][\A p \in 1..Len(calls') : ResolvesAfterConnection(p) => _notebook' = "live"]_wvars

\* ensureConnectionAndNotebook is called in this step, by a new caller or
\* by restartKernelInternal's catch block
CallsEnsureConnectionAndNotebook ==
    \/ IsNewCall("ensureConnectionAndNotebook")
    \/ \E p \in CallIds : calls[p].pc = "disposing" /\ calls'[p].pc # "disposing"

\* C22: a call of ensureConnectionAndNotebook made while the notebook is
\* disposed discards the notebook and both stored promises and starts a
\* new connection attempt, which becomes the stored one.
C22_DisposedNotebookStartsOver ==
    [][(CallsEnsureConnectionAndNotebook /\ _notebook = "disposed") =>
          /\ _notebook' = "undefined"
          /\ notebookPromise' = 0
          /\ StartsAttempt("connection")
          /\ connectionAndNotebookPromise' = Len(attempts')
          /\ Pending(connectionAndNotebookPromise)']_wvars

C22_Witness ==
    /\ _notebook = "undefined" /\ notebookPromise = 0
    /\ Len(attempts) = 3
    /\ attempts[1].pc = "resolved" /\ attempts[2].pc = "resolved"
    /\ connectionAndNotebookPromise = 3 /\ attempts[3].pc = "connecting"
    /\ \E p \in CallIds : calls[p].pc = "ensuring" /\ calls[p].waits = 3

\* restartKernelInternal ends for call p in this step
EndsRestartKernelInternal(p) ==
    /\ calls'[p].kind \in {"restartKernel", "interruptKernel"}
    /\ calls'[p].pc \in {"done", "failed"}
    /\ \/ InRestartKernelInternal(p)
       \/ calls'[p].status # "none" /\ (p \in CallIds => calls[p].status = "none")

\* the catch block of call p receives exception exc in this step
Catches(p, exc) == calls[p].caught = "none" /\ calls'[p].caught = exc

====
